---- MODULE Spec2Model ----
(***************************************************************************)
(* Random Walk Rosenbluth-Metropolis-Hastings kernels of                   *)
(* blackjax/mcmc/random_walk.py.                                           *)
(*                                                                         *)
(* Log-densities, energies and weights are extended reals (a finite        *)
(* integer, -inf, +inf or NaN) with IEEE arithmetic.  Probabilities are    *)
(* kept in log-space: the acceptance rate p is carried as log(p), so       *)
(* p in [0, 1] reads log(p) in [-inf, 0].                                  *)
(***************************************************************************)
EXTENDS Integers, FiniteSets, Sequences, TLC

\* ------------------------------------------------------------------ bounds
MaxPos == 1      \* positions are 0..MaxPos
MaxLD == 1       \* finite log-densities are -MaxLD..0
MaxNoise == 1    \* standard noise draws are -MaxNoise..MaxNoise
MaxU == 2        \* uniform draws have log(u) in -MaxU..-1
MaxSigma == 1    \* scales of the normal random step are 1..MaxSigma
MaxQ == 1        \* drifts of the proposal log-densities are -MaxQ..MaxQ

\* ------------------------------------------------- extended real arithmetic
Fin(n) == [kind |-> "fin", val |-> n]
NaN == [kind |-> "nan", val |-> 0]
PosInf == [kind |-> "posinf", val |-> 0]
NegInf == [kind |-> "neginf", val |-> 0]

IsNaN(a) == a.kind = "nan"
IsFinite(a) == a.kind = "fin"

\* unary minus
Neg(a) ==
    CASE a.kind = "fin" -> Fin(0 - a.val)
      [] a.kind = "posinf" -> NegInf
      [] a.kind = "neginf" -> PosInf
      [] OTHER -> NaN

\* a + b; inf + (-inf) is NaN
Add(a, b) ==
    CASE IsNaN(a) \/ IsNaN(b) -> NaN
      [] IsFinite(a) /\ IsFinite(b) -> Fin(a.val + b.val)
      [] IsFinite(a) -> b
      [] IsFinite(b) -> a
      [] a = b -> a
      [] OTHER -> NaN

\* a - b
Sub(a, b) == Add(a, Neg(b))

\* a < b; every comparison with NaN is false
Lt(a, b) ==
    /\ ~IsNaN(a)
    /\ ~IsNaN(b)
    /\ a # b
    /\ CASE a.kind = "neginf" -> TRUE
         [] b.kind = "posinf" -> TRUE
         [] a.kind = "posinf" -> FALSE
         [] b.kind = "neginf" -> FALSE
         [] OTHER -> a.val < b.val

\* |a|
Abs(a) ==
    CASE a.kind = "fin" -> Fin(IF a.val < 0 THEN 0 - a.val ELSE a.val)
      [] a.kind = "nan" -> NaN
      [] OTHER -> PosInf

\* min(a, b); NaN propagates
Minimum(a, b) ==
    CASE IsNaN(a) \/ IsNaN(b) -> NaN
      [] Lt(b, a) -> b
      [] OTHER -> a

\* ------------------------------------------------------------ input domains
Pos == 0..MaxPos
LDVals == {NaN, NegInf} \cup {Fin(0 - n) : n \in 0..MaxLD}
LogDensityFns == [Pos -> LDVals]

\* A rng key is the pair of substreams it splits into: the first is the
\* standard draw of the proposal, the second gives the uniform draw.
KeyProposal == (0 - MaxNoise)..MaxNoise
KeyAccept == 1..MaxU
Keys == KeyProposal \X KeyAccept

\* jax.random.split(rng_key, 2)
split(rng_key) == <<rng_key[1], rng_key[2]>>

\* log(u) of the uniform draw u in (0, 1) made from key_accept
LogUniform(key_accept) == Fin(0 - key_accept)

\* proposal_logdensity_fn: None or a function of (from, to) states
NoneQ == [is_none |-> TRUE]
SomeQ(f) == [is_none |-> FALSE, fn |-> f]
QTables ==
    {[a \in Pos \X Pos |-> Fin(d * (a[2] - a[1]))] : d \in (0 - MaxQ)..MaxQ}
    \cup {[a \in Pos \X Pos |-> IF a[2] >= a[1] THEN Fin(0) ELSE NegInf]}
QFns == {NoneQ} \cup {SomeQ(f) : f \in QTables}

\* transition_generator(rng_key, position) of the generic kernel
MoveFns ==
    {[a \in KeyProposal \X Pos |-> (a[1] + c * a[2]) % (MaxPos + 1)] : c \in {0, 1}}

\* proposal_distribution(rng_key) of the independent kernel
ProposalDistributions ==
    {[k \in KeyProposal |-> (k + c) % (MaxPos + 1)] : c \in Pos}

\* --------------------------------------------------------------- the program
\* normal(sigma): the random step sigma * z, z the standard draw of the key
normal(sigma) == [a \in KeyProposal \X Pos |-> sigma * a[1]]
RandomSteps == {normal(sigma) : sigma \in 1..MaxSigma}

RWState(position, logdensity) ==
    [position |-> position, logdensity |-> logdensity]

RWInfo(acceptance_rate, is_accepted, proposal) ==
    [acceptance_rate |-> acceptance_rate,
     is_accepted |-> is_accepted,
     proposal |-> proposal]

init(position, logdensity_fn) == RWState(position, logdensity_fn[position])

\* mutant: the log-density enters the energy without its minus sign
transition_energy_not_negated(proposal_logdensity_fn, prev_state, new_state) ==
    IF proposal_logdensity_fn.is_none
    THEN new_state.logdensity
    ELSE Sub(new_state.logdensity,
             proposal_logdensity_fn.fn[<<new_state.position, prev_state.position>>])

\* mutant: q is added to the energy instead of subtracted
transition_energy_plus_q(proposal_logdensity_fn, prev_state, new_state) ==
    IF proposal_logdensity_fn.is_none
    THEN Neg(new_state.logdensity)
    ELSE Add(Neg(new_state.logdensity),
             proposal_logdensity_fn.fn[<<new_state.position, prev_state.position>>])

\* mutant: q is evaluated forwards, from the previous state to the new one
transition_energy_forward_q(proposal_logdensity_fn, prev_state, new_state) ==
    IF proposal_logdensity_fn.is_none
    THEN Neg(new_state.logdensity)
    ELSE Sub(Neg(new_state.logdensity),
             proposal_logdensity_fn.fn[<<prev_state.position, new_state.position>>])

\* build_rmh_transition_energy(proposal_logdensity_fn)(prev_state, new_state)
transition_energy(proposal_logdensity_fn, prev_state, new_state) ==
    IF proposal_logdensity_fn.is_none
    THEN Neg(new_state.logdensity)
    ELSE Sub(Neg(new_state.logdensity),
             proposal_logdensity_fn.fn[<<new_state.position, prev_state.position>>])

\* np.inf, the divergence threshold the kernel passes
divergence_threshold == PosInf

Proposal(state, energy, weight) ==
    [state |-> state, energy |-> energy, weight |-> weight]

\* proposal.asymmetric_proposal_generator(...)[0]
init_proposal(state) == Proposal(state, Fin(0), Fin(0))

\* proposal.asymmetric_proposal_generator(...)[1]: the proposal and whether
\* the candidate was rejected as divergent.  The baseline energy is the energy
\* of the reverse transition, from the candidate back to the previous state;
\* a NaN energy difference, or one whose magnitude exceeds the threshold,
\* gives the zero-acceptance weight -inf.
generate_proposal(proposal_logdensity_fn, previous, candidate) ==
    LET new_energy == transition_energy(proposal_logdensity_fn, previous, candidate)
        prev_energy == transition_energy(proposal_logdensity_fn, candidate, previous)
        delta_energy == Sub(new_energy, prev_energy)
        rejected == IsNaN(delta_energy)
                    \/ Lt(divergence_threshold, Abs(delta_energy))
    IN  <<Proposal(candidate, new_energy,
                   IF rejected THEN NegInf ELSE Neg(delta_energy)),
          rejected>>

\* proposal.static_binomial_sampling(rng_key, proposal, new_proposal):
\* <<chosen, accepted, log of the acceptance probability>>
static_binomial_sampling(key_accept, proposal, new_proposal) ==
    LET log_ratio == Sub(new_proposal.weight, proposal.weight)
        p_accept == Minimum(Fin(0), log_ratio)
        do_accept == Lt(LogUniform(key_accept), log_ratio)
    IN  <<IF do_accept THEN new_proposal ELSE proposal, do_accept, p_accept>>

\* mutant: the new state keeps the log-density of the state it came from
build_trajectory_stale(rng_key, initial_state, logdensity_fn, transition_distribution) ==
    LET new_position == transition_distribution[<<rng_key, initial_state.position>>]
    IN  RWState(new_position, initial_state.logdensity)

\* rmh_proposal.build_trajectory
build_trajectory(rng_key, initial_state, logdensity_fn, transition_distribution) ==
    LET new_position == transition_distribution[<<rng_key, initial_state.position>>]
    IN  RWState(new_position, logdensity_fn[new_position])

\* mutant: the two proposals are handed to the sampler in the wrong order
generate_swapped(rng_key, state, logdensity_fn, transition_distribution, proposal_logdensity_fn) ==
    LET key_proposal == split(rng_key)[1]
        key_accept == split(rng_key)[2]
        end_state == build_trajectory(key_proposal, state, logdensity_fn,
                                      transition_distribution)
        new_proposal == generate_proposal(proposal_logdensity_fn, state, end_state)[1]
        previous_proposal == init_proposal(state)
    IN  static_binomial_sampling(key_accept, new_proposal, previous_proposal)

\* mutant: the new proposal is returned in place of the sampled one
generate_returns_new(rng_key, state, logdensity_fn, transition_distribution, proposal_logdensity_fn) ==
    LET key_proposal == split(rng_key)[1]
        key_accept == split(rng_key)[2]
        end_state == build_trajectory(key_proposal, state, logdensity_fn,
                                      transition_distribution)
        new_proposal == generate_proposal(proposal_logdensity_fn, state, end_state)[1]
        previous_proposal == init_proposal(state)
        sampled == static_binomial_sampling(key_accept, previous_proposal, new_proposal)
    IN  <<new_proposal, sampled[2], sampled[3]>>

\* rmh_proposal.generate
generate(rng_key, state, logdensity_fn, transition_distribution, proposal_logdensity_fn) ==
    LET key_proposal == split(rng_key)[1]
        key_accept == split(rng_key)[2]
        end_state == build_trajectory(key_proposal, state, logdensity_fn,
                                      transition_distribution)
        new_proposal == generate_proposal(proposal_logdensity_fn, state, end_state)[1]
        previous_proposal == init_proposal(state)
    IN  static_binomial_sampling(key_accept, previous_proposal, new_proposal)

\* mutant: the info reports the sampled proposal's weight as acceptance rate
rmh_kernel_reports_weight(rng_key, state, logdensity_fn, transition_generator, proposal_logdensity_fn) ==
    LET sampled == generate(rng_key, state, logdensity_fn, transition_generator,
                            proposal_logdensity_fn)
        new_state == sampled[1].state
    IN  <<new_state, RWInfo(sampled[1].weight, sampled[2], new_state)>>

\* build_rmh().kernel: <<new state, info>>
rmh_kernel(rng_key, state, logdensity_fn, transition_generator, proposal_logdensity_fn) ==
    LET sampled == generate(rng_key, state, logdensity_fn, transition_generator,
                            proposal_logdensity_fn)
        new_state == sampled[1].state
    IN  <<new_state, RWInfo(sampled[3], sampled[2], new_state)>>

\* mutant: the move proposal is returned without adding it to the position
additive_proposal_generator_no_add(random_step) ==
    [a \in KeyProposal \X Pos |-> random_step[a]]

\* build_additive_step().kernel.proposal_generator
additive_proposal_generator(random_step) ==
    [a \in KeyProposal \X Pos |-> a[2] + random_step[a]]

\* build_additive_step().kernel
additive_step_kernel(rng_key, state, logdensity_fn, random_step) ==
    rmh_kernel(rng_key, state, logdensity_fn,
               additive_proposal_generator(random_step), NoneQ)

\* build_irmh().kernel.proposal_generator
irmh_proposal_generator(proposal_distribution) ==
    [a \in KeyProposal \X Pos |-> proposal_distribution[a[1]]]

\* build_irmh().kernel
irmh_kernel(rng_key, state, logdensity_fn, proposal_distribution) ==
    rmh_kernel(rng_key, state, logdensity_fn,
               irmh_proposal_generator(proposal_distribution), NoneQ)

\* ------------------------------------------------------------ state machine
\* A sampler is a kernel with the callables it is used with; a chain keeps
\* its sampler and its target log-density and is stepped with fresh keys.
Samplers ==
    {[kernel |-> "rmh", transition_generator |-> m, proposal_logdensity_fn |-> q] :
        m \in MoveFns, q \in QFns}
    \cup {[kernel |-> "additive", random_step |-> r] : r \in RandomSteps}
    \cup {[kernel |-> "irmh", proposal_distribution |-> p] : p \in ProposalDistributions}

VARIABLES
    logdensity_fn,  \* the target log-density of the chain
    sampler,        \* the kernel of the chain and its callables
    state,          \* the chain's current RWState
    info,           \* the RWInfo of the last step
    call            \* the last kernel call: its key, its input state, its candidate

vars == <<logdensity_fn, sampler, state, info, call>>

NoCall == [called |-> FALSE]
NoInfo == [called |-> FALSE]

Init ==
    /\ logdensity_fn \in LogDensityFns
    /\ sampler \in Samplers
    /\ \E position \in Pos : state = init(position, logdensity_fn)
    /\ info = NoInfo
    /\ call = NoCall

\* the candidate of a call and the energy of the transition to it
Observed(rng_key, transition_generator, proposal_logdensity_fn) ==
    LET end_state == build_trajectory(split(rng_key)[1], state, logdensity_fn,
                                      transition_generator)
    IN  [called |-> TRUE,
         rng_key |-> rng_key,
         state |-> state,
         end_state |-> end_state,
         energy |-> transition_energy(proposal_logdensity_fn, state, end_state)]

\* one call of build_rmh().kernel
StepRmh ==
    /\ sampler.kernel = "rmh"
    /\ \E rng_key \in Keys :
        LET out == rmh_kernel(rng_key, state, logdensity_fn,
                              sampler.transition_generator,
                              sampler.proposal_logdensity_fn)
        IN  /\ state' = out[1]
            /\ info' = out[2]
            /\ call' = Observed(rng_key, sampler.transition_generator,
                                sampler.proposal_logdensity_fn)
            /\ UNCHANGED <<logdensity_fn, sampler>>

\* one call of build_additive_step().kernel; positions stay within Pos
StepAdditive ==
    /\ sampler.kernel = "additive"
    /\ \E rng_key \in Keys :
        /\ additive_proposal_generator(sampler.random_step)[
               <<split(rng_key)[1], state.position>>] \in Pos
        /\ LET out == additive_step_kernel(rng_key, state, logdensity_fn,
                                           sampler.random_step)
           IN  /\ state' = out[1]
               /\ info' = out[2]
               /\ call' = Observed(rng_key,
                                   additive_proposal_generator(sampler.random_step),
                                   NoneQ)
               /\ UNCHANGED <<logdensity_fn, sampler>>

\* one call of build_irmh().kernel
StepIrmh ==
    /\ sampler.kernel = "irmh"
    /\ \E rng_key \in Keys :
        LET out == irmh_kernel(rng_key, state, logdensity_fn,
                               sampler.proposal_distribution)
        IN  /\ state' = out[1]
            /\ info' = out[2]
            /\ call' = Observed(rng_key,
                                irmh_proposal_generator(sampler.proposal_distribution),
                                NoneQ)
            /\ UNCHANGED <<logdensity_fn, sampler>>

Next == StepRmh \/ StepAdditive \/ StepIrmh

Spec == Init /\ [][Next]_vars

\* ------------------------------------------------------------------ claims
\* the proposal log-density the chain's kernel runs with
SamplerQ ==
    IF sampler.kernel = "rmh" THEN sampler.proposal_logdensity_fn ELSE NoneQ

\* log Q(from -> to) as the sampler's q gives it; 0 for a symmetric proposal
LogQ(from, to) ==
    IF SamplerQ.is_none THEN Fin(0) ELSE SamplerQ.fn[<<from.position, to.position>>]

prev == call.state
candidate == call.end_state

\* C1: the proposal field of the returned RWInfo is the candidate generated in
\* this step, whether or not it was accepted.
C1_InfoProposalIsCandidate ==
    call.called => info.proposal = candidate

\* C2: without proposal_logdensity_fn and with finite log-densities, the
\* acceptance rate is min(1, exp(candidate.logdensity - previous.logdensity)):
\* in log-space, the difference of the log-densities capped at 0.
C2_SymmetricAcceptance ==
    (/\ call.called
     /\ SamplerQ.is_none
     /\ IsFinite(prev.logdensity)
     /\ IsFinite(candidate.logdensity))
    => info.acceptance_rate =
           (IF candidate.logdensity.val - prev.logdensity.val < 0
            THEN Fin(candidate.logdensity.val - prev.logdensity.val)
            ELSE Fin(0))

C2_Witness ==
    /\ call.called
    /\ SamplerQ.is_none
    /\ IsFinite(prev.logdensity)
    /\ IsFinite(candidate.logdensity)
    /\ candidate.logdensity.val < prev.logdensity.val
    /\ info.acceptance_rate = Fin(candidate.logdensity.val - prev.logdensity.val)
    /\ info.is_accepted

\* C3: when logdensity_fn is NaN at the candidate position the step reports
\* is_accepted = FALSE and returns the previous state, for every key.
C3_NaNNeverAccepted ==
    (call.called /\ IsNaN(logdensity_fn[candidate.position]))
    => (~info.is_accepted /\ state = prev)

C3_Witness ==
    /\ call.called
    /\ IsNaN(logdensity_fn[candidate.position])
    /\ IsFinite(prev.logdensity)
    /\ ~info.is_accepted
    /\ state = prev

\* C4: every state of the chain, the initial one and each one a kernel
\* returns, carries the log-density of its position.
C4_LogDensityOfPosition ==
    state.logdensity = logdensity_fn[state.position]

C4_Witness ==
    /\ call.called
    /\ info.is_accepted
    /\ state.position # prev.position
    /\ logdensity_fn[state.position] # logdensity_fn[prev.position]
    /\ state.logdensity = logdensity_fn[state.position]

\* C5: the returned state is the candidate when is_accepted, and the input
\* state unchanged when not.
C5_ReturnedState ==
    call.called =>
        /\ info.is_accepted => state = candidate
        /\ ~info.is_accepted => state = prev

C5_Witness ==
    /\ call.called
    /\ ~info.is_accepted
    /\ candidate # prev
    /\ state = prev

\* C6: the acceptance rate lies in [0, 1] (its logarithm in [-inf, 0]) for
\* every state, candidate and proposal log-density.
C6_AcceptanceBound ==
    call.called =>
        \/ info.acceptance_rate = NegInf
        \/ IsFinite(info.acceptance_rate) /\ info.acceptance_rate.val <= 0

C6_Witness ==
    /\ call.called
    /\ ~SamplerQ.is_none
    /\ candidate.logdensity = NegInf
    /\ IsFinite(prev.logdensity)
    /\ info.acceptance_rate = NegInf

\* C7: with q supplied the energy of the transition to the candidate is
\* -candidate.logdensity - q(candidate, previous); without q it is
\* -candidate.logdensity.
C7_TransitionEnergy ==
    call.called =>
        call.energy =
            (IF SamplerQ.is_none
             THEN Neg(candidate.logdensity)
             ELSE Sub(Neg(candidate.logdensity),
                      SamplerQ.fn[<<candidate.position, prev.position>>]))

C7_Witness ==
    /\ call.called
    /\ ~SamplerQ.is_none
    /\ IsFinite(candidate.logdensity)
    /\ LogQ(candidate, prev) # LogQ(prev, candidate)
    /\ call.energy = Sub(Neg(candidate.logdensity), LogQ(candidate, prev))

\* the acceptance rate of the kernel for a step from state x to candidate y
AcceptanceRate(x, y) ==
    rmh_kernel(call.rng_key, x, logdensity_fn,
               [a \in KeyProposal \X Pos |-> y.position], SamplerQ)[2].acceptance_rate

\* C8: detailed balance, pi(x) Q(x->y) a(x,y) = pi(y) Q(y->x) a(y,x), in
\* log-space, for the step made (x the input state, y the candidate) and the
\* kernel's acceptance rate of the reverse step.
C8_DetailedBalance ==
    (/\ call.called
     /\ ~IsNaN(prev.logdensity)
     /\ ~IsNaN(candidate.logdensity))
    => Add(Add(prev.logdensity, LogQ(prev, candidate)), info.acceptance_rate)
       = Add(Add(candidate.logdensity, LogQ(candidate, prev)),
             AcceptanceRate(candidate, prev))

C8_Witness ==
    /\ call.called
    /\ ~SamplerQ.is_none
    /\ IsFinite(prev.logdensity)
    /\ IsFinite(candidate.logdensity)
    /\ LogQ(candidate, prev) # LogQ(prev, candidate)
    /\ IsFinite(LogQ(candidate, prev))
    /\ IsFinite(LogQ(prev, candidate))
    /\ info.acceptance_rate # AcceptanceRate(candidate, prev)

\* C10: the additive-step kernel returns what the generic kernel returns with
\* move(rng, position) = position + random_step(rng, position) and no q; the
\* independent kernel what it returns with move(rng, position) =
\* proposal_distribution(rng) and no q, the candidate not depending on position.
C10_Specializations ==
    call.called =>
        /\ sampler.kernel = "additive" =>
            /\ candidate.position =
                   prev.position
                   + sampler.random_step[<<split(call.rng_key)[1], prev.position>>]
            /\ <<state, info>> =
                   rmh_kernel(call.rng_key, prev, logdensity_fn,
                              [a \in KeyProposal \X Pos |->
                                  a[2] + sampler.random_step[a]],
                              NoneQ)
        /\ sampler.kernel = "irmh" =>
            /\ candidate.position =
                   sampler.proposal_distribution[split(call.rng_key)[1]]
            /\ <<state, info>> =
                   rmh_kernel(call.rng_key, prev, logdensity_fn,
                              [a \in KeyProposal \X Pos |->
                                  sampler.proposal_distribution[a[1]]],
                              NoneQ)

C10_Witness ==
    /\ call.called
    /\ sampler.kernel = "additive"
    /\ candidate.position # prev.position
    /\ info.is_accepted
    /\ state = candidate

====
